---- MODULE Spec2Model ----
(***************************************************************************)
(* Model of src/streamlit_app.py: the Vans dashboard script.               *)
(*                                                                         *)
(* Streamlit executes the whole script once per interaction cycle (a user  *)
(* event on a widget, a page load, or st.rerun()).  st.session_state is    *)
(* the only state that survives a cycle.  A cycle is modelled as a walk of *)
(* pc through the script's sections:                                       *)
(*   header (l.54-58) -> gate (l.60-91) -> load (l.94-124) ->              *)
(*   upload (l.126-155) -> check (l.157-167) -> kpi (l.236) ->             *)
(*   display (l.239-286) -> preview (l.289-314) -> idle                    *)
(* st.stop() and an uncaught exception end the cycle early (pc = "idle"),  *)
(* st.rerun() ends it and starts a new one at once (pc = "rerun").         *)
(*                                                                         *)
(* Text is modelled with TLA+ strings, tables as records of columns, and   *)
(* the pandas operations the script calls by what they do to the cells.    *)
(*                                                                         *)
(* What is left out: the number formats of the f-strings (values are kept  *)
(* exact, a mean as the quotient sum/count); the values widgets keep from  *)
(* one run to the next (the radio choice, the picked file and the bundled  *)
(* file are drawn anew in every run, which allows every sequence a user    *)
(* can produce); numbers other than non-negative integers.  Besides        *)
(* MaxRows, the CSV files are bounded by the sets Headers and RawCells.    *)
(***************************************************************************)
EXTENDS Integers, Sequences, FiniteSets, TLC

(***************************************************************************)
(* Bounds of the model                                                     *)
(***************************************************************************)
\* most data rows of a generated CSV file
MaxRows == 2
\* the failed-login counter (a history variable) saturates here
MaxFailures == 3

(***************************************************************************)
(* Text helpers: str.lower, `in`, str.endswith, str.strip, int parsing     *)
(***************************************************************************)
UpperToLower ==
  [A |-> "a", B |-> "b", C |-> "c", D |-> "d", E |-> "e", F |-> "f", G |-> "g",
   H |-> "h", I |-> "i", J |-> "j", K |-> "k", L |-> "l", M |-> "m", N |-> "n",
   O |-> "o", P |-> "p", Q |-> "q", R |-> "r", S |-> "s", T |-> "t", U |-> "u",
   V |-> "v", W |-> "w", X |-> "x", Y |-> "y", Z |-> "z"]

LowerChar(c) == IF c \in DOMAIN UpperToLower THEN UpperToLower[c] ELSE c

RECURSIVE Lower(_)
Lower(s) == IF s = "" THEN "" ELSE LowerChar(Head(s)) \o Lower(Tail(s))

\* Python's `sub in s`
Contains(s, sub) ==
  \E i \in 1..(Len(s) - Len(sub) + 1) : SubSeq(s, i, i + Len(sub) - 1) = sub

\* Python's s.endswith(suf): case-sensitive
EndsWith(s, suf) ==
  Len(s) >= Len(suf) /\ SubSeq(s, Len(s) - Len(suf) + 1, Len(s)) = suf

RECURSIVE LStrip(_)
LStrip(s) == IF s /= "" /\ Head(s) = " " THEN LStrip(Tail(s)) ELSE s

RECURSIVE RStrip(_)
RStrip(s) ==
  IF s /= "" /\ SubSeq(s, Len(s), Len(s)) = " "
  THEN RStrip(SubSeq(s, 1, Len(s) - 1)) ELSE s

\* Python's str(c).strip()
Strip(s) == RStrip(LStrip(s))

Digits == "0123456789"

DigitVal(c) == CHOOSE d \in 0..9 : SubSeq(Digits, d + 1, d + 1) = c

IsDigit(c) == \E d \in 0..9 : SubSeq(Digits, d + 1, d + 1) = c

\* the text is a non-empty run of decimal digits
IsNumeral(s) == s /= "" /\ \A i \in 1..Len(s) : IsDigit(SubSeq(s, i, i))

RECURSIVE ParseNat(_)
ParseNat(s) ==
  IF s = "" THEN 0
  ELSE 10 * ParseNat(SubSeq(s, 1, Len(s) - 1)) + DigitVal(SubSeq(s, Len(s), Len(s)))

RECURSIVE NatToStr(_)
NatToStr(n) ==
  IF n < 10 THEN SubSeq(Digits, n + 1, n + 1)
  ELSE NatToStr(n \div 10) \o SubSeq(Digits, (n % 10) + 1, (n % 10) + 1)

\* printable characters in code-point order, for comparing text
Ascii == " ()-.0123456789:<>ABCDEFGHIJKLMNOPQRSTUVWXYZ_abcdefghijklmnopqrstuvwxyz"

Ord(c) == CHOOSE i \in 1..Len(Ascii) : SubSeq(Ascii, i, i) = c

RECURSIVE StrLess(_, _)
StrLess(a, b) ==
  IF b = "" THEN FALSE
  ELSE IF a = "" THEN TRUE
  ELSE IF Head(a) = Head(b) THEN StrLess(Tail(a), Tail(b))
  ELSE Ord(Head(a)) < Ord(Head(b))

(***************************************************************************)
(* pandas values.  A cell is text, a number, or one of the missing values  *)
(* NaN, None and pd.NA; a Series is a dtype and its cells; a DataFrame is  *)
(* its column labels, one Series per label, and its row count.             *)
(***************************************************************************)
StrCell(t) == [k |-> "str", s |-> t, n |-> 0]

NumCell(v) == [k |-> "num", s |-> "", n |-> v]

NaN == [k |-> "nan", s |-> "", n |-> 0]

NoneCell == [k |-> "none", s |-> "", n |-> 0]

NACell == [k |-> "NA", s |-> "", n |-> 0]

\* pandas isna()
IsMissing(c) == c.k \in {"nan", "none", "NA"}

EmptyDF == [columns |-> <<>>, data |-> <<>>, nrows |-> 0]

\* DataFrame.empty: some axis has length 0
DfEmpty(df) == Len(df.columns) = 0 \/ df.nrows = 0

\* the field texts pandas.read_csv reads as missing (its default na_values)
NaTokens ==
  {"", "nan", "NaN", "-nan", "-NaN", "NA", "N/A", "n/a", "#N/A", "#NA", "<NA>",
   "NULL", "null"}

\* an uploaded/default CSV file's content: its header line and its data rows.
\* A file with no header line at all makes read_csv raise EmptyDataError.
ReadCsvRaises(content) == content.header = <<>>

\* pd.read_csv(f, dtype=str): every field is text, NA tokens become NaN
ReadCsvStr(content) ==
  [columns |-> content.header,
   data |-> [j \in 1..Len(content.header) |->
               [dtype |-> "object",
                cells |-> [i \in 1..Len(content.rows) |->
                             IF content.rows[i][j] \in NaTokens THEN NaN
                             ELSE StrCell(content.rows[i][j])]]],
   nrows |-> Len(content.rows)]

\* pd.to_numeric(series, errors='coerce') on a text column: a cell that
\* parses becomes its number, any other cell becomes NaN; the result is
\* int64 when nothing is missing and float64 otherwise.
ToNumericCell(c) ==
  IF c.k = "str" /\ IsNumeral(c.s) THEN NumCell(ParseNat(c.s))
  ELSE IF c.k = "num" THEN c
  ELSE NaN

ToNumericCoerce(series) ==
  LET out == [i \in 1..Len(series.cells) |-> ToNumericCell(series.cells[i])]
  IN  [dtype |-> IF \E i \in 1..Len(out) : IsMissing(out[i]) THEN "float64" ELSE "int64",
       cells |-> out]

\* pd.read_csv(path): dtypes are inferred per column; a column whose fields
\* are all numerals or NA tokens is numeric, any other column is text.
ReadCsvInfer(content) ==
  LET txt == ReadCsvStr(content)
      numeric(ser) == /\ Len(ser.cells) > 0
                      /\ \A i \in 1..Len(ser.cells) :
                            IsMissing(ser.cells[i]) \/ IsNumeral(ser.cells[i].s)
  IN  [txt EXCEPT !.data =
         [j \in 1..Len(txt.data) |->
            IF numeric(txt.data[j]) THEN ToNumericCoerce(txt.data[j]) ELSE txt.data[j]]]

\* Series.replace('nan', None): a cell equal to the text 'nan' becomes None.
\* (read_csv has already turned the field text 'nan' into NaN, so no cell of
\* an uploaded file matches.)
ReplaceNanText(series) ==
  [series EXCEPT !.cells =
     [i \in 1..Len(series.cells) |->
        IF series.cells[i] = StrCell("nan") THEN NoneCell ELSE series.cells[i]]]

(***************************************************************************)
(* Upload coercion (l.137-147) and column-label clean-up (l.167)           *)
(***************************************************************************)
numeric_indicators ==
  {"age", "year", "egp", "days", "hours", "deliveries", "income", "salary", "allowance"}

\* a faulty variant of HasNumericIndicator: the label is not lower-cased
HasNumericIndicatorCaseSensitive(col) ==
  \E indicator \in numeric_indicators : Contains(col, indicator)

\* any(indicator in col.lower() for indicator in numeric_indicators)
HasNumericIndicator(col) ==
  \E indicator \in numeric_indicators : Contains(Lower(col), indicator)

\* l.137-147: nothing is done to an empty frame; otherwise 'nan' texts are
\* replaced in every column and the keyword columns go through to_numeric
CoerceUpload(df) ==
  IF DfEmpty(df) THEN df
  ELSE [df EXCEPT !.data =
          [j \in 1..Len(df.data) |->
             LET cleaned == ReplaceNanText(df.data[j])
             IN  IF HasNumericIndicator(df.columns[j])
                 THEN ToNumericCoerce(cleaned) ELSE cleaned]]

\* l.167: df_all.columns = [str(c).strip() for c in df_all.columns]
StripColumns(df) ==
  [df EXCEPT !.columns = [j \in 1..Len(df.columns) |-> Strip(df.columns[j])]]

(***************************************************************************)
(* calculate_kpis (l.190-233)                                              *)
(***************************************************************************)
age_col == "Age (Years)"

delivery_col == "Average number of deliveries per day: ______"

success_col == "Approximate delivery success rate (orders deliv..."

income_col == "Please mention your Fixed Monthly Pay (if any):..."

company_col == "Company"

\* a KPI value: an exact quotient num/den, or a text
KNum(a, b) == [kind |-> "num", num |-> a, den |-> b, txt |-> ""]

KTxt(t) == [kind |-> "txt", num |-> 0, den |-> 1, txt |-> t]

NoKpis == [key \in {} |-> KTxt("")]

\* `col in df.columns`
HasColumn(df, col) == \E j \in 1..Len(df.columns) : df.columns[j] = col

\* df[col]
Column(df, col) == df.data[CHOOSE j \in 1..Len(df.columns) : df.columns[j] = col]

\* Series.dropna()
DropNa(series) ==
  [series EXCEPT !.cells = SelectSeq(series.cells, LAMBDA c : ~IsMissing(c))]

RECURSIVE SumCells(_)
SumCells(cells) ==
  IF cells = <<>> THEN 0 ELSE Head(cells).n + SumCells(Tail(cells))

RECURSIVE JoinCells(_)
JoinCells(cells) ==
  IF cells = <<>> THEN "" ELSE Head(cells).s \o JoinCells(Tail(cells))

\* Series.mean() of a non-empty Series without missing cells.  On a numeric
\* dtype it is sum/len.  On a text column (dtype object) pandas >= 2 raises
\* TypeError; pandas 1.x adds the texts up (concatenation), converts the
\* result with float() and divides by len, raising TypeError when float()
\* fails.  `build` names which pandas the deployment runs.
MeanRaises(series, build) ==
  /\ series.dtype = "object"
  /\ \/ build = "pandas2"
     \/ ~IsNumeral(JoinCells(series.cells))

Mean(series, build) ==
  IF series.dtype = "object"
  THEN KNum(ParseNat(JoinCells(series.cells)), Len(series.cells))
  ELSE KNum(SumCells(series.cells), Len(series.cells))

\* one of the four mean blocks (l.194-224): the keys it adds to kpis
MeanKpi(df, col, key, countKey, build) ==
  IF ~HasColumn(df, col) THEN NoKpis
  ELSE LET valid == DropNa(Column(df, col))
       IN  IF Len(valid.cells) > 0
           THEN (key :> Mean(valid, build)) @@ (countKey :> KNum(Len(valid.cells), 1))
           ELSE NoKpis

MeanKpiRaises(df, col, build) ==
  /\ HasColumn(df, col)
  /\ Len(DropNa(Column(df, col)).cells) > 0
  /\ MeanRaises(DropNa(Column(df, col)), build)

CellLess(a, b) == IF a.k = "num" /\ b.k = "num" THEN a.n < b.n ELSE StrLess(a.s, b.s)

Occurrences(cells, c) == Cardinality({i \in 1..Len(cells) : cells[i] = c})

\* Series.mode(): the most frequent non-missing values, sorted ascending
ModeValues(series) ==
  LET cells == DropNa(series).cells
      vals == {cells[i] : i \in 1..Len(cells)}
  IN  {v \in vals : \A w \in vals : Occurrences(cells, w) <= Occurrences(cells, v)}

\* l.231: df[company_col].mode().iloc[0] if len(mode) > 0 else "N/A"
TopCompany(series) ==
  LET modes == ModeValues(series)
  IN  IF modes = {} THEN KTxt("N/A")
      ELSE LET first == CHOOSE v \in modes : \A w \in modes : w = v \/ CellLess(v, w)
           IN  IF first.k = "num" THEN KNum(first.n, 1) ELSE KTxt(first.s)

\* l.226-231
CompanyKpi(df) ==
  IF ~HasColumn(df, company_col) THEN NoKpis
  ELSE LET cells == DropNa(Column(df, company_col)).cells
       IN  ("unique_companies" :> KNum(Cardinality({cells[i] : i \in 1..Len(cells)}), 1))
           @@ ("top_company" :> TopCompany(Column(df, company_col)))

\* the call raises TypeError out of one of its .mean() calls
CalculateKpisRaises(df, build) ==
  \E col \in {age_col, delivery_col, success_col, income_col} :
     MeanKpiRaises(df, col, build)

\* the returned kpis dict
calculate_kpis(df, build) ==
  MeanKpi(df, age_col, "avg_age", "age_count", build)
  @@ MeanKpi(df, delivery_col, "avg_deliveries", "delivery_count", build)
  @@ MeanKpi(df, success_col, "success_rate", "success_count", build)
  @@ MeanKpi(df, income_col, "avg_income", "income_count", build)
  @@ CompanyKpi(df)

(***************************************************************************)
(* KPI display (l.239-286).  A st.metric call is recorded as the metric    *)
(* shown, its value and its delta; the f-string number formats are not     *)
(* modelled: values are kept exact.                                        *)
(***************************************************************************)
Metric(name, value, delta) == [metric |-> name, value |-> value, delta |-> delta]

\* df.notna().sum().sum()
NotNaCount(df) ==
  Cardinality({<<j, i>> \in (1..Len(df.data)) \X (1..df.nrows) :
                 ~IsMissing(df.data[j].cells[i])})

\* l.239-244
Slot1(df_v, df_a) == Metric("total_responses", KNum(df_v.nrows, 1), KNum(df_a.nrows, 1))

\* l.246-254
Slot2(k) ==
  IF "avg_age" \in DOMAIN k THEN Metric("avg_age", k["avg_age"], k["age_count"])
  ELSE Metric("avg_age", KTxt("No data"), KTxt(""))

\* a faulty variant of Slot3: income is preferred to deliveries
Slot3IncomeFirst(k, df) ==
  IF "avg_income" \in DOMAIN k
  THEN Metric("avg_income", k["avg_income"], k["income_count"])
  ELSE IF "avg_deliveries" \in DOMAIN k
  THEN Metric("avg_deliveries", k["avg_deliveries"], k["delivery_count"])
  ELSE Metric("data_coverage", KNum(Len(df.columns), 1), KTxt(""))

\* l.256-270
Slot3(k, df) ==
  IF "avg_deliveries" \in DOMAIN k
  THEN Metric("avg_deliveries", k["avg_deliveries"], k["delivery_count"])
  ELSE IF "avg_income" \in DOMAIN k
  THEN Metric("avg_income", k["avg_income"], k["income_count"])
  ELSE Metric("data_coverage", KNum(Len(df.columns), 1), KTxt(""))

\* l.272-286
Slot4(k, df) ==
  IF "success_rate" \in DOMAIN k
  THEN Metric("success_rate", k["success_rate"], k["success_count"])
  ELSE IF "unique_companies" \in DOMAIN k
  THEN Metric("unique_companies", k["unique_companies"], k["top_company"])
  ELSE Metric("data_quality", KNum(NotNaCount(df), 1), KTxt(""))

(***************************************************************************)
(* make_display_safe (l.170-179) and df.head(3) (l.304)                    *)
(***************************************************************************)
\* Series.astype(str) on one cell: str() of the value; a float64 column
\* prints its numbers with a decimal point
AsTypeStr(c, dtype) ==
  CASE c.k = "str" -> c.s
    [] c.k = "num" -> IF dtype = "float64" THEN NatToStr(c.n) \o ".0" ELSE NatToStr(c.n)
    [] c.k = "nan" -> "nan"
    [] c.k = "none" -> "None"
    [] c.k = "NA" -> "<NA>"

\* Series.replace(old, new) on a column of texts: whole-cell match
ReplaceText(t, old, new) == IF t = old THEN new ELSE t

\* l.176
DisplaySafeCell(c, dtype) ==
  StrCell(ReplaceText(ReplaceText(AsTypeStr(c, dtype), "nan", ""), "<NA>", ""))

make_display_safe(df) ==
  [df EXCEPT !.data =
     [j \in 1..Len(df.data) |->
        [dtype |-> "object",
         cells |-> [i \in 1..Len(df.data[j].cells) |->
                      DisplaySafeCell(df.data[j].cells[i], df.data[j].dtype)]]]]

Min(a, b) == IF a < b THEN a ELSE b

\* DataFrame.head(n)
DfHead(df, n) ==
  [df EXCEPT !.nrows = Min(n, df.nrows),
             !.data = [j \in 1..Len(df.data) |->
                         [df.data[j] EXCEPT !.cells = SubSeq(@, 1, Min(n, df.nrows))]]]

(***************************************************************************)
(* Inputs: the configured password, what the user types, the files         *)
(***************************************************************************)
\* os.getenv("STREAMLIT_DASH_PASSWORD", ""): unset, or set
Passwords == {"", "s3cret"}

\* what a user may type into the login form
TypedPasswords == {"", "s3cret", "S3CRET", "s3cret "}

SAMPLE == "Use included sample file"

UPLOAD == "Upload your own Excel file"

\* the field texts of the generated CSV files
RawCells == {"25", "abc", ""}

\* the header lines of the generated CSV files
Headers ==
  {<<age_col>>, <<delivery_col>>, <<success_col>>, <<income_col>>, <<company_col>>,
   <<"Notes">>, <<" Region ">>, <<"Total INCOME">>,
   <<delivery_col, income_col>>, <<success_col, company_col>>,
   <<age_col, company_col>>, <<income_col, "Notes">>,
   <<delivery_col, success_col>>, <<" Region ", "Total INCOME">>}

Content(h, r) == [header |-> h, rows |-> r]

GeneratedContents ==
  UNION {{Content(h, r) : r \in [1..n -> [1..Len(h) -> RawCells]]} :
           <<h, n>> \in Headers \X (0..MaxRows)}

\* the examples of spec.md section 8
ExampleAges == Content(<<age_col>>, << <<"25">>, <<"30">>, <<"abc">>, <<"40">> >>)

ExampleCompanies ==
  Content(<<company_col>>, << <<"A">>, <<"B">>, <<"A">>, <<"C">>, <<"A">> >>)

\* a file of zero bytes (or one that is no CSV text at all)
ZeroBytes == Content(<<>>, <<>>)

CsvContents == GeneratedContents \cup {ExampleAges, ExampleCompanies, ZeroBytes}

UploadedFile(name, content) == [present |-> TRUE, name |-> name, content |-> content]

\* st.file_uploader returned None
NoFile == [present |-> FALSE, name |-> "", content |-> ZeroBytes]

\* st.file_uploader(type=["xlsx", "csv"]) (l.127-131): Streamlit compares the
\* extension of the picked file with the allowed types ignoring case
UploaderAccepts(name) ==
  \E t \in {"xlsx", "csv"} : EndsWith(Lower(name), "." \o t)

\* the files a user may pick
PickedFiles ==
  {UploadedFile("data.csv", c) : c \in CsvContents}
  \cup {UploadedFile("DATA.CSV", c) : c \in {ExampleAges, ZeroBytes}}
  \cup {UploadedFile(n, ZeroBytes) : n \in {"book.xlsx", "notes.txt"}}

UploaderResults == {NoFile} \cup {f \in PickedFiles : UploaderAccepts(f.name)}

\* the bundled Vans_data_ultra_clean.csv: absent, or present with some content
DefaultFiles ==
  {[exists |-> FALSE, content |-> ZeroBytes]}
  \cup {[exists |-> TRUE, content |-> c] : c \in CsvContents}

\* the pandas the deployment runs (see Mean)
PandasBuilds == {"pandas2", "pandas1"}

(***************************************************************************)
(* State                                                                   *)
(***************************************************************************)
VARIABLES
  PASSWORD,         \* l.42
  session_state,    \* st.session_state: is the key set, and its value
  pc,               \* where the script run is
  trigger,          \* what started the current run
  clicked,          \* the logout button was pressed for this run
  ok,               \* the login form was submitted for this run
  pwd,              \* the password text submitted with it
  rendered,         \* the widgets the page shows
  failures,         \* history: failed login submissions since the gate was last passed
  data_choice,      \* l.100
  uploaded_file,    \* l.127
  df_all,           \* l.106
  df_view,          \* l.181
  kpis,             \* l.236
  metrics,          \* the four st.metric slots of l.239-286
  safe_df_preview,  \* l.304
  log,              \* messages shown and reads done in this run
  outcome,          \* how the run ended
  mds_in,           \* make_display_safe applied alone: its argument,
  mds_once,         \*   the result of one application,
  mds_twice,        \*   the result of a second one,
  mds_pc            \*   and how far this went

vars ==
  <<PASSWORD, session_state, pc, trigger, clicked, ok, pwd, rendered, failures,
    data_choice, uploaded_file, df_all, df_view, kpis, metrics, safe_df_preview,
    log, outcome, mds_in, mds_once, mds_twice, mds_pc>>

mdsVars == <<mds_in, mds_once, mds_twice, mds_pc>>

sessionVars == <<PASSWORD, session_state, failures>>

dataVars == <<data_choice, uploaded_file, df_all, df_view, kpis, metrics, safe_df_preview>>

eventVars == <<trigger, clicked, ok, pwd>>

\* st.session_state.get('authenticated', False)
Authenticated(ss) == ss.has /\ ss.authenticated

\* the script's variables before its first line has run
FreshRun ==
  /\ data_choice' = ""
  /\ uploaded_file' = NoFile
  /\ df_all' = EmptyDF
  /\ df_view' = EmptyDF
  /\ kpis' = NoKpis
  /\ metrics' = <<>>
  /\ safe_df_preview' = EmptyDF
  /\ log' = {}
  /\ outcome' = "running"
  /\ pc' = "header"

Init ==
  /\ PASSWORD \in Passwords
  /\ session_state = [has |-> FALSE, authenticated |-> FALSE]
  /\ pc = "idle"
  /\ trigger = "none"
  /\ clicked = FALSE
  /\ ok = FALSE
  /\ pwd = ""
  /\ rendered = {}
  /\ failures = 0
  /\ data_choice = ""
  /\ uploaded_file = NoFile
  /\ df_all = EmptyDF
  /\ df_view = EmptyDF
  /\ kpis = NoKpis
  /\ metrics = <<>>
  /\ safe_df_preview = EmptyDF
  /\ log = {}
  /\ outcome = "none"
  /\ mds_in = EmptyDF
  /\ mds_once = EmptyDF
  /\ mds_twice = EmptyDF
  /\ mds_pc = "off"

(***************************************************************************)
(* What starts a script run                                                *)
(***************************************************************************)
\* a page load, or a change of the radio or the uploader: no button fires
PageInteraction ==
  /\ pc = "idle"
  /\ trigger' = "user"
  /\ clicked' = FALSE
  /\ ok' = FALSE
  /\ pwd' = ""
  /\ FreshRun
  /\ UNCHANGED <<sessionVars, rendered, mdsVars>>

\* the user presses the logout button the page shows
ClickLogout ==
  /\ pc = "idle"
  /\ "logout" \in rendered
  /\ trigger' = "user"
  /\ clicked' = TRUE
  /\ ok' = FALSE
  /\ pwd' = ""
  /\ FreshRun
  /\ UNCHANGED <<sessionVars, rendered, mdsVars>>

\* the user submits the login form the page shows
SubmitLogin ==
  /\ pc = "idle"
  /\ "login" \in rendered
  /\ \E typed \in TypedPasswords : pwd' = typed
  /\ trigger' = "user"
  /\ clicked' = FALSE
  /\ ok' = TRUE
  /\ FreshRun
  /\ UNCHANGED <<sessionVars, rendered, mdsVars>>

\* st.rerun() (l.58, l.85): the script runs again at once, no widget fires
Rerun ==
  /\ pc = "rerun"
  /\ clicked' = FALSE
  /\ ok' = FALSE
  /\ pwd' = ""
  /\ FreshRun
  /\ UNCHANGED <<sessionVars, trigger, rendered, mdsVars>>

(***************************************************************************)
(* The script, section by section                                          *)
(***************************************************************************)
\* a faulty variant of LogoutOffered: offered whenever a password is configured
LogoutOfferedWithoutLogin(password, ss) == password /= ""

\* l.55: the logout button is part of the page
LogoutOffered(password, ss) == password /= "" /\ Authenticated(ss)

\* l.54-58
Header ==
  /\ pc = "header"
  /\ rendered' = IF LogoutOffered(PASSWORD, session_state) THEN {"logout"} ELSE {}
  /\ IF LogoutOffered(PASSWORD, session_state) /\ clicked
     THEN /\ session_state' = [has |-> TRUE, authenticated |-> FALSE]
          /\ pc' = "rerun"
          /\ trigger' = "rerun_logout"
          /\ outcome' = "rerun"
     ELSE /\ pc' = "gate"
          /\ UNCHANGED <<session_state, trigger, outcome>>
  /\ UNCHANGED <<PASSWORD, failures, clicked, ok, pwd, dataVars, log, mdsVars>>

\* a faulty variant of LoginResult: any submission is accepted
LoginResultAnySubmission(submitted, typed, password) ==
  IF submitted THEN "granted" ELSE "prompt"

\* a faulty variant of LoginResult: the comparison ignores case
LoginResultIgnoringCase(submitted, typed, password) ==
  IF submitted /\ Lower(typed) = Lower(password) THEN "granted"
  ELSE IF submitted THEN "denied"
  ELSE "prompt"

\* l.82-91: `ok and pwd == PASSWORD`, `elif ok`, `else`
LoginResult(submitted, typed, password) ==
  IF submitted /\ typed = password THEN "granted"
  ELSE IF submitted THEN "denied"
  ELSE "prompt"

\* l.60-91
Gate ==
  /\ pc = "gate"
  /\ IF PASSWORD = ""
     THEN /\ pc' = "load"
          /\ UNCHANGED <<session_state, trigger, rendered, failures, log, outcome>>
     ELSE IF Authenticated(session_state)
     THEN /\ pc' = "load"
          /\ failures' = 0
          /\ UNCHANGED <<session_state, trigger, rendered, log, outcome>>
     ELSE /\ rendered' = rendered \cup {"login"}
          /\ IF LoginResult(ok, pwd, PASSWORD) = "granted"
             THEN /\ session_state' = [has |-> TRUE, authenticated |-> TRUE]
                  /\ log' = log \cup {"access_granted"}
                  /\ pc' = "rerun"
                  /\ trigger' = "rerun_login"
                  /\ outcome' = "rerun"
                  /\ UNCHANGED failures
             ELSE IF LoginResult(ok, pwd, PASSWORD) = "denied"
             THEN /\ session_state' = [has |-> TRUE, authenticated |-> FALSE]
                  /\ log' = log \cup {"incorrect_password"}
                  /\ pc' = "idle"
                  /\ outcome' = "stopped"
                  /\ failures' = Min(failures + 1, MaxFailures)
                  /\ UNCHANGED trigger
             ELSE /\ session_state' = [has |-> TRUE, authenticated |-> FALSE]
                  /\ log' = log \cup {"login_prompt"}
                  /\ pc' = "idle"
                  /\ outcome' = "stopped"
                  /\ UNCHANGED <<trigger, failures>>
  /\ UNCHANGED <<PASSWORD, clicked, ok, pwd, dataVars, mdsVars>>

\* l.110-119: the frame the sample-file attempt leaves in df_all
LoadDefault(d) ==
  IF ~d.exists \/ ReadCsvRaises(d.content) THEN EmptyDF
  ELSE IF DfEmpty(ReadCsvInfer(d.content)) THEN EmptyDF
  ELSE ReadCsvInfer(d.content)

\* the messages of l.110-123
LoadDefaultLog(d) ==
  (IF d.exists THEN {"read_default"} ELSE {})
  \cup (IF d.exists /\ ReadCsvRaises(d.content) THEN {"issue_loading"} ELSE {})
  \cup (IF DfEmpty(LoadDefault(d)) THEN {"files_not_found"} ELSE {"loaded_sample"})

\* l.94-124
LoadData ==
  /\ pc = "load"
  /\ rendered' = rendered \cup {"radio"}
  /\ \E choice \in {SAMPLE, UPLOAD}, d \in DefaultFiles :
        IF choice = SAMPLE
        THEN /\ df_all' = LoadDefault(d)
             /\ log' = log \cup LoadDefaultLog(d)
             /\ data_choice' = IF DfEmpty(LoadDefault(d)) THEN UPLOAD ELSE SAMPLE
        ELSE /\ df_all' = EmptyDF
             /\ data_choice' = UPLOAD
             /\ UNCHANGED log
  /\ pc' = IF data_choice' = UPLOAD \/ DfEmpty(df_all') THEN "upload" ELSE "check"
  /\ UNCHANGED <<sessionVars, eventVars, uploaded_file, df_view, kpis, metrics,
                 safe_df_preview, outcome, mdsVars>>

\* l.134: uploaded_file.name.endswith('.csv')
TakenAsCsv(name) == EndsWith(name, ".csv")

\* l.126-155
UploadStep ==
  /\ pc = "upload"
  /\ rendered' = rendered \cup {"uploader"}
  /\ \E f \in UploaderResults :
        /\ uploaded_file' = f
        /\ IF ~f.present
           THEN /\ log' = log \cup {"please_upload"}
                /\ pc' = "idle"
                /\ outcome' = "stopped"
                /\ UNCHANGED df_all
           ELSE IF TakenAsCsv(f.name) /\ ReadCsvRaises(f.content)
           THEN /\ log' = log \cup {"read_upload"}
                /\ pc' = "idle"
                /\ outcome' = "exception"
                /\ UNCHANGED df_all
           ELSE IF TakenAsCsv(f.name)
           THEN /\ df_all' = CoerceUpload(ReadCsvStr(f.content))
                /\ log' = log \cup {"read_upload"}
                            \cup (IF DfEmpty(df_all') THEN {} ELSE {"uploaded_ok"})
                /\ pc' = "check"
                /\ UNCHANGED outcome
           ELSE /\ log' = log \cup {"excel_unsupported"}
                /\ pc' = "check"
                /\ UNCHANGED <<df_all, outcome>>
  /\ UNCHANGED <<sessionVars, eventVars, data_choice, df_view, kpis, metrics,
                 safe_df_preview, mdsVars>>

\* l.157-181
CheckData ==
  /\ pc = "check"
  /\ IF DfEmpty(df_all)
     THEN /\ log' = log \cup {"no_data"}
          /\ pc' = "idle"
          /\ outcome' = "stopped"
          /\ UNCHANGED <<df_all, df_view>>
     ELSE IF df_all.nrows = 0 \/ Len(df_all.columns) = 0
     THEN /\ log' = log \cup {"invalid_structure"}
          /\ pc' = "idle"
          /\ outcome' = "stopped"
          /\ UNCHANGED <<df_all, df_view>>
     ELSE /\ df_all' = StripColumns(df_all)
          /\ df_view' = StripColumns(df_all)
          /\ pc' = "kpi"
          /\ UNCHANGED <<log, outcome>>
  /\ UNCHANGED <<sessionVars, eventVars, rendered, data_choice, uploaded_file, kpis,
                 metrics, safe_df_preview, mdsVars>>

\* l.236: kpis = calculate_kpis(df_view); a TypeError out of it ends the run
CalcKpis ==
  /\ pc = "kpi"
  /\ \E build \in PandasBuilds :
        IF CalculateKpisRaises(df_view, build)
        THEN /\ pc' = "idle"
             /\ outcome' = "exception"
             /\ UNCHANGED kpis
        ELSE /\ kpis' = calculate_kpis(df_view, build)
             /\ pc' = "display"
             /\ UNCHANGED outcome
  /\ UNCHANGED <<sessionVars, eventVars, rendered, data_choice, uploaded_file, df_all,
                 df_view, metrics, safe_df_preview, log, mdsVars>>

\* l.239-286
Display ==
  /\ pc = "display"
  /\ metrics' = <<Slot1(df_view, df_all), Slot2(kpis), Slot3(kpis, df_view),
                  Slot4(kpis, df_view)>>
  /\ pc' = "preview"
  /\ UNCHANGED <<sessionVars, eventVars, rendered, data_choice, uploaded_file, df_all,
                 df_view, kpis, safe_df_preview, log, outcome, mdsVars>>

\* l.289-314
Preview ==
  /\ pc = "preview"
  /\ safe_df_preview' = make_display_safe(DfHead(df_view, 3))
  /\ log' = log \cup {"running"}
  /\ pc' = "idle"
  /\ outcome' = "completed"
  /\ UNCHANGED <<sessionVars, eventVars, rendered, data_choice, uploaded_file, df_all,
                 df_view, kpis, metrics, mdsVars>>

Next ==
  \/ PageInteraction
  \/ ClickLogout
  \/ SubmitLogin
  \/ Rerun
  \/ Header
  \/ Gate
  \/ LoadData
  \/ UploadStep
  \/ CheckData
  \/ CalcKpis
  \/ Display
  \/ Preview

Spec == Init /\ [][Next]_vars

(***************************************************************************)
(* make_display_safe on its own: a table is drawn, the function is applied *)
(* to it, and applied again to the result.                                 *)
(***************************************************************************)
\* the cells a column of each dtype may hold
CellsOfDtype(dtype) ==
  CASE dtype = "object" ->
         {StrCell("abc"), StrCell("25"), StrCell("nan"), NumCell(7), NaN, NoneCell, NACell}
    [] dtype = "float64" -> {NumCell(25), NaN}
    [] dtype = "int64" -> {NumCell(25)}

\* one-column tables of up to MaxRows rows
DisplayInputs ==
  UNION {{[columns |-> <<"c">>,
           data |-> <<[dtype |-> dt, cells |-> cs]>>,
           nrows |-> n] : cs \in [1..n -> CellsOfDtype(dt)]} :
           <<dt, n>> \in {"object", "float64", "int64"} \X (0..MaxRows)}

MdsInit ==
  /\ PASSWORD = ""
  /\ session_state = [has |-> FALSE, authenticated |-> FALSE]
  /\ pc = "idle"
  /\ trigger = "none"
  /\ clicked = FALSE
  /\ ok = FALSE
  /\ pwd = ""
  /\ rendered = {}
  /\ failures = 0
  /\ data_choice = ""
  /\ uploaded_file = NoFile
  /\ df_all = EmptyDF
  /\ df_view = EmptyDF
  /\ kpis = NoKpis
  /\ metrics = <<>>
  /\ safe_df_preview = EmptyDF
  /\ log = {}
  /\ outcome = "none"
  /\ mds_in \in DisplayInputs
  /\ mds_once = EmptyDF
  /\ mds_twice = EmptyDF
  /\ mds_pc = "start"

MdsOnce ==
  /\ mds_pc = "start"
  /\ mds_once' = make_display_safe(mds_in)
  /\ mds_pc' = "once"
  /\ UNCHANGED <<sessionVars, eventVars, dataVars, pc, rendered, log, outcome,
                 mds_in, mds_twice>>

MdsTwice ==
  /\ mds_pc = "once"
  /\ mds_twice' = make_display_safe(mds_once)
  /\ mds_pc' = "twice"
  /\ UNCHANGED <<sessionVars, eventVars, dataVars, pc, rendered, log, outcome,
                 mds_in, mds_once>>

MdsNext ==
  \/ MdsOnce
  \/ MdsTwice

SpecMDS == MdsInit /\ [][MdsNext]_vars

(***************************************************************************)
(* Properties: the password gate                                           *)
(***************************************************************************)
\* the sections of the script behind the gate
DataSections == {"load", "upload", "check", "kpi", "display", "preview"}

\* C1: with a password configured, the data-loading, KPI and preview sections
\* are reached only with the authenticated flag true at the gate, and the
\* flag turns from false to true only in the gate of a run whose login form
\* was submitted with exactly the configured password; with no password
\* configured the gate lets every run through to data loading.
C1_GateGuardsData ==
  /\ [](PASSWORD /= "" /\ pc \in DataSections => Authenticated(session_state))
  /\ [][pc' \in DataSections /\ pc \notin DataSections
          => pc = "gate" /\ (PASSWORD = "" \/ Authenticated(session_state))]_vars
  /\ [][~Authenticated(session_state) /\ Authenticated(session_state')
          => pc = "gate" /\ PASSWORD /= "" /\ ok /\ pwd = PASSWORD]_vars
  /\ [][PASSWORD = "" /\ pc = "gate"
          => pc' = "load" /\ "login" \notin rendered']_vars

\* a run that was let in right after a successful login reaches data loading
C1_Witness ==
  PASSWORD /= "" /\ pc = "load" /\ trigger = "rerun_login"
  /\ Authenticated(session_state)

\* C2: once true, the flag stays true through every later step of every run
\* until the logout button is pressed; pressing it sets the flag to false and
\* the run that follows stops at the login prompt; the logout button is on
\* the page only with a password configured and the flag true.
C2_FlagPersistsUntilLogout ==
  /\ [][Authenticated(session_state) /\ ~Authenticated(session_state')
          => pc = "header" /\ clicked /\ pc' = "rerun"]_vars
  /\ [][pc = "header" /\ clicked /\ Authenticated(session_state)
          => ~Authenticated(session_state') /\ trigger' = "rerun_logout"]_vars
  /\ [](trigger = "rerun_logout"
          => /\ ~Authenticated(session_state)
             /\ \/ pc \in {"rerun", "header", "gate"}
                \/ pc = "idle" /\ outcome = "stopped" /\ "login_prompt" \in log)
  /\ [][pc = "header" /\ "logout" \in rendered'
          => PASSWORD /= "" /\ Authenticated(session_state)]_vars
  /\ [][clicked' => "logout" \in rendered \/ clicked]_vars

\* after a logout the next run has stopped at the login prompt
C2_Witness ==
  trigger = "rerun_logout" /\ pc = "idle" /\ "login_prompt" \in log
  /\ ~Authenticated(session_state)

\* C3: a submission with another password leaves the flag false and stops
\* the run at the login prompt before any data is read; the form stays on
\* the page, and however many submissions failed before, a submission of the
\* exact password sets the flag to true.
C3_FailedLoginNoLockout ==
  /\ [][pc = "gate" /\ PASSWORD /= "" /\ ~Authenticated(session_state)
          /\ ok /\ pwd /= PASSWORD
          => /\ ~Authenticated(session_state')
             /\ pc' = "idle" /\ outcome' = "stopped"
             /\ "incorrect_password" \in log'
             /\ "login" \in rendered']_vars
  /\ []("incorrect_password" \in log
          => /\ pc = "idle" /\ ~Authenticated(session_state)
             /\ log \cap {"read_default", "read_upload"} = {}
             /\ df_all = EmptyDF /\ data_choice = ""
             /\ "login" \in rendered)
  /\ [][pc = "gate" /\ PASSWORD /= "" /\ ~Authenticated(session_state)
          /\ ok /\ pwd = PASSWORD
          => Authenticated(session_state') /\ pc' = "rerun"]_vars

\* the exact password is accepted after MaxFailures failed submissions
C3_Witness ==
  failures = MaxFailures /\ trigger = "rerun_login" /\ pc = "rerun"
  /\ Authenticated(session_state)

(***************************************************************************)
(* Properties: data loading                                                *)
(***************************************************************************)
\* the uploaded file is a CSV file: its extension is csv, in any case, which
\* is how the uploader that let it in classifies it
IsCsvFile(name) == EndsWith(Lower(name), ".csv")

\* the run has gone past the KPI calculation
KpisComputed == pc \in {"display", "preview"} \/ outcome = "completed"

\* C4: an uploaded file that is no CSV gets the unsupported-format message,
\* is not read, leaves no table and the run stops before any KPI or preview;
\* every uploaded CSV file goes down the CSV parsing path.
C4_UploadFormat ==
  uploaded_file.present =>
    IF IsCsvFile(uploaded_file.name)
    THEN "read_upload" \in log /\ "excel_unsupported" \notin log
    ELSE /\ "excel_unsupported" \in log
         /\ "read_upload" \notin log
         /\ DfEmpty(df_all)
         /\ pc \in {"check", "idle"}
         /\ pc = "idle" => outcome = "stopped" /\ "no_data" \in log
         /\ kpis = NoKpis /\ metrics = <<>> /\ safe_df_preview = EmptyDF

\* C5: KPI calculation and rendering see only tables with a row and a
\* column; a run that went into data loading and ended with an empty table
\* ended by a stop with one of the terminal messages.
C5_EmptyDataHalts ==
  /\ pc \in {"kpi", "display", "preview"} \/ outcome = "completed"
       => df_view.nrows >= 1 /\ Len(df_view.columns) >= 1
  /\ pc = "idle" /\ data_choice /= "" /\ DfEmpty(df_all)
       => /\ outcome = "stopped"
          /\ log \cap {"please_upload", "no_data", "invalid_structure"} /= {}

(***************************************************************************)
(* Properties: the KPI set                                                 *)
(***************************************************************************)
\* the column each KPI key is computed from
SourceColumn(key) ==
  CASE key \in {"avg_age", "age_count"} -> age_col
    [] key \in {"avg_deliveries", "delivery_count"} -> delivery_col
    [] key \in {"success_rate", "success_count"} -> success_col
    [] key \in {"avg_income", "income_count"} -> income_col
    [] key \in {"unique_companies", "top_company"} -> company_col

\* the column is in the table and holds a value that is not missing
HasData(df, col) ==
  \E j \in 1..Len(df.columns) :
     /\ df.columns[j] = col
     /\ \E i \in 1..df.nrows : ~IsMissing(df.data[j].cells[i])

\* C6: a key is in the KPI set only if its source column is in the table and
\* holds at least one value that is not missing.
C6_KeysNeedData ==
  KpisComputed => \A key \in DOMAIN kpis : HasData(df_view, SourceColumn(key))

\* the numbers of a column, and how many cells are not missing
NumbersOf(df, col) ==
  LET cells == Column(df, col).cells
  IN  {i \in 1..Len(cells) : cells[i].k = "num"}

RECURSIVE SumOver(_, _)
SumOver(cells, idx) ==
  IF idx = {} THEN 0
  ELSE LET i == CHOOSE x \in idx : TRUE
       IN  cells[i].n + SumOver(cells, idx \ {i})

MeanKeys ==
  {<<age_col, "avg_age", "age_count">>,
   <<delivery_col, "avg_deliveries", "delivery_count">>,
   <<success_col, "success_rate", "success_count">>,
   <<income_col, "avg_income", "income_count">>}

\* the run read an uploaded CSV with data and has been through calculate_kpis
UploadedCsvThroughKpis ==
  /\ "uploaded_ok" \in log
  /\ \/ KpisComputed
     \/ pc = "idle" /\ outcome = "exception"

\* C7: for an uploaded CSV, each of the four mean columns that holds a value
\* gives its KPI, equal to the mean of the column's numbers, with the count of
\* contributing rows, and the calculation does not end the run with an error.
C7_MeansOfUploadedCsv ==
  UploadedCsvThroughKpis =>
    /\ outcome /= "exception"
    /\ \A m \in MeanKeys :
         HasData(df_view, m[1]) =>
           /\ m[2] \in DOMAIN kpis
           /\ m[3] \in DOMAIN kpis
           /\ kpis[m[2]] = KNum(SumOver(Column(df_view, m[1]).cells, NumbersOf(df_view, m[1])),
                                Cardinality(NumbersOf(df_view, m[1])))
           /\ kpis[m[3]] = KNum(Cardinality(NumbersOf(df_view, m[1])), 1)
           /\ Column(df_view, m[1]).dtype \in {"int64", "float64"}

\* the labels among Headers that hold a numeric-indicator keyword, ignoring
\* case: "Age (Years)" (age, year), "Average ... deliveries ..." (age,
\* deliveries) and "Total INCOME" (income)
KeywordLabels == {age_col, delivery_col, "Total INCOME"}

\* the number each field text of the generated and example files stands for
FieldNumber == ("25" :> 25) @@ ("30" :> 30) @@ ("40" :> 40)

\* C8: after a CSV upload, exactly the columns whose label holds a keyword
\* (in any case) are numeric, cell by cell: the number where the field
\* parses, missing where it does not; every other column holds the fields
\* as text, with empty fields missing.  The "25","30","abc","40" example
\* gives 25, 30, missing, 40 and an average age of 95/3.
C8_KeywordColumnsCoerced ==
  /\ "uploaded_ok" \in log =>
       /\ df_all.nrows = Len(uploaded_file.content.rows)
       /\ Len(df_all.data) = Len(uploaded_file.content.header)
       /\ \A j \in 1..Len(uploaded_file.content.header) :
            LET label == uploaded_file.content.header[j]
                col == df_all.data[j]
            IN  /\ col.dtype \in {"int64", "float64"} <=> label \in KeywordLabels
                /\ \A i \in 1..df_all.nrows :
                     LET field == uploaded_file.content.rows[i][j]
                     IN  IF label \in KeywordLabels
                         THEN col.cells[i] = IF field \in DOMAIN FieldNumber
                                             THEN NumCell(FieldNumber[field]) ELSE NaN
                         ELSE col.cells[i] = IF field = "" THEN NaN ELSE StrCell(field)
  /\ "uploaded_ok" \in log /\ uploaded_file.content = ExampleAges =>
       /\ df_all.data[1].cells = <<NumCell(25), NumCell(30), NaN, NumCell(40)>>
       /\ KpisComputed => kpis["avg_age"] = KNum(95, 3) /\ kpis["age_count"] = KNum(3, 1)

\* the example upload has been coerced and its average age computed
C8_Witness ==
  /\ pc = "display"
  /\ uploaded_file.present /\ uploaded_file.name = "data.csv"
  /\ uploaded_file.content = ExampleAges
  /\ "avg_age" \in DOMAIN kpis

(***************************************************************************)
(* Properties: the display                                                 *)
(***************************************************************************)
\* the cells of the table that are not missing, counted column by column
AnswerCount(df) ==
  LET RECURSIVE upTo(_)
      upTo(j) == IF j = 0 THEN 0
                 ELSE Len(DropNa(df.data[j]).cells) + upTo(j - 1)
  IN  upTo(Len(df.data))

\* C9: the third slot shows deliveries if that key is there, else income if
\* that key is there, else the column count; the fourth slot shows the
\* success rate, else the company count with the top company, else the count
\* of cells that are not missing; there is one metric per slot.
C9_DisplayPriority ==
  metrics /= <<>> =>
    LET k == DOMAIN kpis
    IN  /\ Len(metrics) = 4
        /\ "avg_deliveries" \in k =>
             metrics[3] = Metric("avg_deliveries", kpis["avg_deliveries"], kpis["delivery_count"])
        /\ "avg_deliveries" \notin k /\ "avg_income" \in k =>
             metrics[3] = Metric("avg_income", kpis["avg_income"], kpis["income_count"])
        /\ "avg_deliveries" \notin k /\ "avg_income" \notin k =>
             metrics[3] = Metric("data_coverage", KNum(Len(df_view.columns), 1), KTxt(""))
        /\ "success_rate" \in k =>
             metrics[4] = Metric("success_rate", kpis["success_rate"], kpis["success_count"])
        /\ "success_rate" \notin k /\ "unique_companies" \in k =>
             metrics[4] = Metric("unique_companies", kpis["unique_companies"], kpis["top_company"])
        /\ "success_rate" \notin k /\ "unique_companies" \notin k =>
             metrics[4] = Metric("data_quality", KNum(AnswerCount(df_view), 1), KTxt(""))
        /\ metrics[4].metric = "data_quality" => k \cap {"success_rate", "unique_companies"} = {}

\* both candidates of the third slot are there and deliveries is shown
C9_Witness ==
  /\ metrics /= <<>>
  /\ {"avg_deliveries", "avg_income"} \subseteq DOMAIN kpis
  /\ metrics[3].metric = "avg_deliveries"

(***************************************************************************)
(* Properties: make_display_safe                                           *)
(***************************************************************************)
\* the texts pandas prints for a missing value
NullMarkers == {"nan", "NaN", "None", "<NA>", "NaT"}

AllCells(df) ==
  {<<j, i>> \in (1..Len(df.data)) \X (1..df.nrows) : TRUE}

====
